---- MODULE Spec2Model ----
(***************************************************************************)
(* A model of media-to-ascii: the desktop shell (App.vue, the Video and    *)
(* Image panels) and the rendering engine the shell drives.                *)
(*                                                                         *)
(* Strings the user types are sequences of characters, so that trim() is   *)
(* computed.  A "string | null" value is a path or Null.  A numeric field  *)
(* holds what v-model.number leaves in it: <<n>> for the number n (in      *)
(* thousandths, 2046 is 2.046) or <<>> for the empty string of a cleared   *)
(* input.  A nullable message is <<>> (null) or <<msg>>.                   *)
(***************************************************************************)
EXTENDS Integers, Sequences, FiniteSets, TLC

\* Longest string typed into a text input.
MaxStrLen == 1
\* Number of instances of each panel the shell creates in one behaviour.
MaxInstances == 2

--------------------------------------------------------------------------
(* Strings, numbers and JSON as the shell's JavaScript treats them.        *)

Chars == {" ", "a"}

RECURSIVE StrsOfLen(_)
StrsOfLen(n) ==
  IF n = 0 THEN {<<>>}
  ELSE {Append(s, c) : s \in StrsOfLen(n - 1), c \in Chars}

Strs == UNION {StrsOfLen(n) : n \in 0..MaxStrLen}

Null == <<"null">>

IsSpace(c) == c = " "

RECURSIVE TrimStart(_)
TrimStart(s) ==
  IF s # <<>> /\ IsSpace(Head(s)) THEN TrimStart(Tail(s)) ELSE s

RECURSIVE TrimEnd(_)
TrimEnd(s) ==
  IF s # <<>> /\ IsSpace(s[Len(s)])
  THEN TrimEnd(SubSeq(s, 1, Len(s) - 1))
  ELSE s

\* String.prototype.trim
Trim(s) == TrimEnd(TrimStart(s))

\* JavaScript truthiness of a "string | null" value.
Truthy(p) == p # Null /\ p # <<>>

\* p?.trim() || null
TrimOrNull(p) ==
  IF p = Null THEN Null
  ELSE IF Trim(p) = <<>> THEN Null ELSE Trim(p)

\* ToNumber of a numeric field: the empty string converts to 0.
ToNumber(v) == IF v = <<>> THEN 0 ELSE v[1]

\* What a numeric input can leave in its field: cleared (the empty string,
\* which compares as 0), a negative number, or the field's default.
NumInputs(default) == {<<>>, <<-1000>>, <<default>>}

RotateOptions == {-1, 0, 1, 2}

VIDEO_STORAGE_KEY == "mediatoascii:video-config"
IMAGE_STORAGE_KEY == "mediatoascii:image-config"

\* The fields of a config by the type of the values the form leaves in them.
BooleanFields == {"overwrite", "use_max_fps_for_output_video", "invert"}
IntegerFields == {"rotate"}
NumberFields == {"scale_down", "font_size", "height_sample_scale", "max_fps"}

\* A JSON string literal: the characters between quotes, a quote or a
\* backslash escaped with a backslash.
RECURSIVE JSONquote(_)
JSONquote(s) ==
  IF s = <<>> THEN <<>>
  ELSE (IF Head(s) \in {"\"", "\\"} THEN <<"\\", Head(s)>> ELSE <<Head(s)>>)
       \o JSONquote(Tail(s))

RECURSIVE JSONunquote(_)
JSONunquote(t) ==
  IF t = <<>> THEN <<>>
  ELSE IF Head(t) = "\\" /\ Len(t) >= 2
       THEN <<t[2]>> \o JSONunquote(Tail(Tail(t)))
       ELSE <<Head(t)>> \o JSONunquote(Tail(t))

JSONstring(s) == <<"\"">> \o JSONquote(s) \o <<"\"">>

\* The JSON text of the value of one field: true, false, null, a number, or
\* a string literal (the empty string of a cleared numeric input is one).
JSONvalue(field, v) ==
  IF field \in BooleanFields THEN (IF v THEN <<"true">> ELSE <<"false">>)
  ELSE IF field \in IntegerFields THEN <<"number", v>>
  ELSE IF field \in NumberFields
       THEN (IF v = <<>> THEN JSONstring(v) ELSE <<"number", v[1]>>)
  ELSE IF v = Null THEN <<"null">> ELSE JSONstring(v)

\* The value a field's JSON text parses to.
JSONfieldValue(field, t) ==
  IF t = <<"true">> THEN TRUE
  ELSE IF t = <<"false">> THEN FALSE
  ELSE IF t = <<"null">> THEN Null
  ELSE IF Head(t) = "number"
       THEN (IF field \in IntegerFields THEN t[2] ELSE <<t[2]>>)
  ELSE JSONunquote(SubSeq(t, 2, Len(t) - 1))

\* localStorage holds, per key, nothing, or a text: the JSON text of an
\* object (field -> text of its value) or a text that does not parse.
Absent == [kind |-> "absent", value |-> <<>>]
Unparseable == [kind |-> "garbage", value |-> <<>>]
JSONstringify(obj) ==
  [kind |-> "json",
   value |-> [k \in DOMAIN obj |-> JSONvalue(k, obj[k])]]
JSONparses(text) == text.kind = "json"
JSONparse(text) ==
  [k \in DOMAIN text.value |-> JSONfieldValue(k, text.value[k])]

\* { ...b, ...a }: the defaults spread last.
SpreadDefaultsLast(a, b) ==
  [k \in DOMAIN a \cup DOMAIN b |-> IF k \in DOMAIN a THEN a[k] ELSE b[k]]

\* { ...a, ...b }
Spread(a, b) ==
  [k \in DOMAIN a \cup DOMAIN b |-> IF k \in DOMAIN b THEN b[k] ELSE a[k]]

--------------------------------------------------------------------------
VARIABLES
  activeTab,      \* App.vue: the tab shown
  localStorage,   \* key -> stored text
  videoPanel,     \* the refs of the mounted Video instance (id 0: none)
  instances,      \* Video instances created so far
  listenPending,  \* instances whose listen("video-progress") is pending
  listeners,      \* instances whose listener is registered
  videoReqs,      \* outstanding process_video requests
  watchers,       \* instances with an outstanding video_progress command
  imagePanel,     \* the refs of the mounted Image instance (id 0: none)
  imageInstances, \* Image instances created so far
  imageReqs,      \* outstanding process_image requests
  videoRun,       \* the engine's run of one process_video request
  imageRun        \* the engine's run of one process_image request

videoVars ==
  <<videoPanel, instances, listenPending, listeners, videoReqs, watchers>>

imageVars == <<imagePanel, imageInstances, imageReqs>>

shellVars == <<activeTab, localStorage, videoVars, imageVars>>

engineVars == <<videoRun, imageRun>>

vars == <<shellVars, engineVars>>

--------------------------------------------------------------------------
(* The Video panel.                                                        *)

defaultVideoConfig ==
  [video_path |-> <<>>,
   output_video_path |-> Null,
   scale_down |-> <<1000>>,
   font_size |-> <<12000>>,
   height_sample_scale |-> <<2046>>,
   max_fps |-> <<10000>>,
   rotate |-> -1,
   overwrite |-> FALSE,
   use_max_fps_for_output_video |-> FALSE,
   invert |-> FALSE]

loadPersistedConfigVideo(storage) ==
  LET saved == storage[VIDEO_STORAGE_KEY]
  IN IF saved.kind # "absent"
     THEN IF JSONparses(saved)
          THEN Spread(defaultVideoConfig, JSONparse(saved))
          ELSE defaultVideoConfig
     ELSE defaultVideoConfig

\* The refs of a Video instance right after setup.
NewVideoPanel(id, storage) ==
  [id |-> id,
   config |-> loadPersistedConfigVideo(storage),
   processError |-> <<>>,
   processing |-> FALSE,
   progress |-> 0,
   status |-> "idle",
   statusDetail |-> "Waiting to start",
   outputPath |-> Null,
   startedAt |-> FALSE,
   progressListener |-> FALSE,
   progressWatcherRunning |-> FALSE]

NoStorage ==
  [k \in {VIDEO_STORAGE_KEY, IMAGE_STORAGE_KEY} |-> Absent]

NoVideoPanel == NewVideoPanel(0, NoStorage)

\* validationErrorsVideo with the output path tested the way the Image panel
\* tests its output paths: for truthiness, without trim().
validationErrorsVideoNoTrim(config) ==
  (IF Trim(config.video_path) = <<>>
   THEN <<"Input video is required.">> ELSE <<>>)
  \o (IF ~Truthy(config.output_video_path)
      THEN <<"Output video path is required (MP4).">> ELSE <<>>)
  \o (IF ToNumber(config.scale_down) <= 0
      THEN <<"Scale down must be greater than 0.">> ELSE <<>>)
  \o (IF ToNumber(config.font_size) <= 0
      THEN <<"Font size must be greater than 0.">> ELSE <<>>)
  \o (IF ToNumber(config.height_sample_scale) <= 0
      THEN <<"Height sample scale must be greater than 0.">> ELSE <<>>)
  \o (IF ToNumber(config.max_fps) <= 0
      THEN <<"Max FPS must be greater than 0.">> ELSE <<>>)

validationErrorsVideo(config) ==
  (IF Trim(config.video_path) = <<>>
   THEN <<"Input video is required.">> ELSE <<>>)
  \o (IF ~Truthy(config.output_video_path)
         \/ Len(Trim(config.output_video_path)) = 0
      THEN <<"Output video path is required (MP4).">> ELSE <<>>)
  \o (IF ToNumber(config.scale_down) <= 0
      THEN <<"Scale down must be greater than 0.">> ELSE <<>>)
  \o (IF ToNumber(config.font_size) <= 0
      THEN <<"Font size must be greater than 0.">> ELSE <<>>)
  \o (IF ToNumber(config.height_sample_scale) <= 0
      THEN <<"Height sample scale must be greater than 0.">> ELSE <<>>)
  \o (IF ToNumber(config.max_fps) <= 0
      THEN <<"Max FPS must be greater than 0.">> ELSE <<>>)
  \o (IF config.rotate # -1 /\ config.rotate \notin {0, 1, 2}
      THEN <<"Rotate must be -1 (no rotate), 0 (90 CW), 1 (180), or 2 (90 CCW).">>
      ELSE <<>>)

canSubmitVideo ==
  ~videoPanel.processing /\ Len(validationErrorsVideo(videoPanel.config)) = 0

\* watch(config, ..., { deep: true })
watchVideoConfig(config) ==
  [localStorage EXCEPT ![VIDEO_STORAGE_KEY] = JSONstringify(config)]

\* The values the form's bound inputs can put into each field.
VideoFieldInputs ==
  [video_path |-> Strs,
   output_video_path |-> Strs,
   scale_down |-> NumInputs(1000),
   font_size |-> NumInputs(12000),
   height_sample_scale |-> NumInputs(2046),
   max_fps |-> NumInputs(10000),
   rotate |-> RotateOptions,
   overwrite |-> BOOLEAN,
   use_max_fps_for_output_video |-> BOOLEAN,
   invert |-> BOOLEAN]

\* v-model on an input of the Video form; every input is disabled while
\* processing.
editVideoConfig(field, value) ==
  /\ activeTab = "video"
  /\ ~videoPanel.processing
  /\ videoPanel.config[field] # value
  /\ LET config == [videoPanel.config EXCEPT ![field] = value]
     IN /\ videoPanel' = [videoPanel EXCEPT !.config = config]
        /\ localStorage' = watchVideoConfig(config)
  /\ UNCHANGED <<activeTab, instances, listenPending, listeners,
                 videoReqs, watchers, imageVars,
                 engineVars>>

\* A RESET button that is not disabled while processing.
resetStateWhileProcessing ==
  /\ activeTab = "video"
  /\ videoPanel' = [videoPanel EXCEPT
       !.processError = <<>>,
       !.status = "idle",
       !.statusDetail = "Waiting to start",
       !.progress = 0,
       !.outputPath = Null,
       !.startedAt = FALSE]
  /\ UNCHANGED <<activeTab, localStorage, instances, listenPending,
                 listeners, videoReqs, watchers, imageVars,
                 engineVars>>

resetState ==
  /\ activeTab = "video"
  /\ ~videoPanel.processing
  /\ videoPanel' = [videoPanel EXCEPT
       !.processError = <<>>,
       !.status = "idle",
       !.statusDetail = "Waiting to start",
       !.progress = 0,
       !.outputPath = Null,
       !.startedAt = FALSE]
  /\ UNCHANGED <<activeTab, localStorage, instances, listenPending,
                 listeners, videoReqs, watchers, imageVars,
                 engineVars>>

videoPayload(config) ==
  [config EXCEPT !.output_video_path = TrimOrNull(config.output_video_path)]

processVideo ==
  /\ activeTab = "video"
  /\ canSubmitVideo
  /\ videoPanel' = [videoPanel EXCEPT
       !.processError = <<>>,
       !.status = "processing",
       !.statusDetail = "Preparing video...",
       !.progress = 0,
       !.outputPath = Null,
       !.startedAt = TRUE,
       !.processing = TRUE,
       !.progressWatcherRunning = TRUE]
  /\ watchers' = IF ~videoPanel.progressWatcherRunning
                 THEN watchers \cup {videoPanel.id}
                 ELSE watchers
  /\ videoReqs' = videoReqs \cup
       {[owner |-> videoPanel.id, config |-> videoPayload(videoPanel.config)]}
  /\ UNCHANGED <<activeTab, localStorage, instances, listenPending,
                 listeners, imageVars,
                 engineVars>>

\* Messages a rejected command carries (error?.message || String(error)).
Errors == {"InvalidConfig", "DecodeError"}

\* The continuation of "await invoke('process_video')" when it resolves.  It
\* runs in the instance that issued the request, mounted or not.
processVideoResolved(r) ==
  /\ r \in videoReqs
  /\ videoReqs' = videoReqs \ {r}
  /\ videoPanel' =
       IF r.owner = videoPanel.id
       THEN [videoPanel EXCEPT
               !.progress = 100,
               !.status = "done",
               !.statusDetail = "Finished writing output",
               !.outputPath = r.config.output_video_path,
               !.processing = FALSE]
       ELSE videoPanel
  /\ UNCHANGED <<activeTab, localStorage, instances, listenPending,
                 listeners, watchers, imageVars,
                 engineVars>>

\* A catch block that reports the run as finished.
processVideoRejectedAsDone(r, error) == processVideoResolved(r)

processVideoRejected(r, error) ==
  /\ r \in videoReqs
  /\ videoReqs' = videoReqs \ {r}
  /\ videoPanel' =
       IF r.owner = videoPanel.id
       THEN [videoPanel EXCEPT
               !.processError = <<error>>,
               !.status = "error",
               !.statusDetail = "Something went wrong",
               !.processing = FALSE]
       ELSE videoPanel
  /\ UNCHANGED <<activeTab, localStorage, instances, listenPending,
                 listeners, watchers, imageVars,
                 engineVars>>

\* invoke("video_progress").finally(...)
videoProgressSettled(id) ==
  /\ id \in watchers
  /\ watchers' = watchers \ {id}
  /\ videoPanel' =
       IF id = videoPanel.id
       THEN [videoPanel EXCEPT !.progressWatcherRunning = FALSE]
       ELSE videoPanel
  /\ UNCHANGED <<activeTab, localStorage, instances, listenPending,
                 listeners, videoReqs, imageVars,
                 engineVars>>

\* The promise of listen("video-progress", ...) resolves: the listener is
\* registered and the instance that asked keeps its unlisten function.
listenResolved(id) ==
  /\ id \in listenPending
  /\ listenPending' = listenPending \ {id}
  /\ listeners' = listeners \cup {id}
  /\ videoPanel' =
       IF id = videoPanel.id
       THEN [videoPanel EXCEPT !.progressListener = TRUE]
       ELSE videoPanel
  /\ UNCHANGED <<activeTab, localStorage, instances, videoReqs, watchers,
                 imageVars,
                 engineVars>>

\* Paths the file dialog returns for a picked file or directory.
DialogFiles == {<<"a">>}
DialogDirs == {<<"a">>, <<"a", "/">>}

Includes(s, c) == \E i \in 1..Len(s) : s[i] = c
EndsWith(s, c) == s # <<>> /\ s[Len(s)] = c

\* typeof selected === "string": the dialog was not cancelled.
pickVideoFile(selected) ==
  /\ activeTab = "video"
  /\ ~videoPanel.processing
  /\ LET config == [videoPanel.config EXCEPT !.video_path = selected]
     IN /\ config # videoPanel.config
        /\ videoPanel' = [videoPanel EXCEPT !.config = config]
        /\ localStorage' = watchVideoConfig(config)
  /\ UNCHANGED <<activeTab, instances, listenPending, listeners,
                 videoReqs, watchers, imageVars,
                 engineVars>>

pickOutputFile(selected) ==
  /\ activeTab = "video"
  /\ ~videoPanel.processing
  /\ LET separator == IF Includes(selected, "\\") THEN "\\" ELSE "/"
         path == IF EndsWith(selected, separator)
                 THEN selected
                 ELSE Append(selected, separator)
         config == [videoPanel.config EXCEPT
                      !.output_video_path = Append(path, "output.mp4")]
     IN /\ config # videoPanel.config
        /\ videoPanel' = [videoPanel EXCEPT !.config = config]
        /\ localStorage' = watchVideoConfig(config)
  /\ UNCHANGED <<activeTab, instances, listenPending, listeners,
                 videoReqs, watchers, imageVars,
                 engineVars>>

\* Payloads of a "video-progress" event, in thousandths: the ratios the
\* engine emits, one of them above 1.0.
ProgressPayloads == {0, 505, 1000, 2000}

Min(a, b) == IF a <= b THEN a ELSE b

\* The percentage without the cap at 100.
progressPercentUncapped(payload) == (payload * 100) \div 1000

\* Math.min(100, Math.floor(payload * 100))
progressPercent(payload) == Min(100, (payload * 100) \div 1000)

\* The backend emits "video-progress" while a command of the shell runs; the
\* listener of the mounted instance handles it.
videoProgressEvent(payload) ==
  /\ videoReqs # {} \/ watchers # {}
  /\ videoPanel.id \in listeners
  /\ LET percent == progressPercent(payload)
     IN videoPanel' = [videoPanel EXCEPT
          !.progress = percent,
          !.statusDetail =
            IF percent >= 100 /\ videoPanel.status = "processing"
            THEN "Finishing up..."
            ELSE @]
  /\ videoPanel' # videoPanel
  /\ UNCHANGED <<activeTab, localStorage, instances, listenPending,
                 listeners, videoReqs, watchers, imageVars,
                 engineVars>>

--------------------------------------------------------------------------
(* The Image panel.                                                        *)

defaultImageConfig ==
  [image_path |-> <<>>,
   scale_down |-> <<1000>>,
   font_size |-> <<12000>>,
   height_sample_scale |-> <<2046>>,
   invert |-> FALSE,
   output_file_path |-> Null,
   output_image_path |-> Null,
   overwrite |-> FALSE]

loadPersistedConfigImage(storage) ==
  LET saved == storage[IMAGE_STORAGE_KEY]
  IN IF saved.kind # "absent"
     THEN IF JSONparses(saved)
          THEN Spread(defaultImageConfig, JSONparse(saved))
          ELSE defaultImageConfig
     ELSE defaultImageConfig

\* The refs of an Image instance right after setup.
NewImagePanel(id, storage) ==
  [id |-> id,
   config |-> loadPersistedConfigImage(storage),
   status |-> "idle",
   statusDetail |-> "Ready to process an image",
   processError |-> <<>>,
   processing |-> FALSE,
   outputs |-> <<>>]

NoImagePanel == NewImagePanel(0, NoStorage)

validationErrorsImage(config) ==
  (IF Trim(config.image_path) = <<>>
   THEN <<"Input image is required.">> ELSE <<>>)
  \o (IF ~Truthy(config.output_file_path) /\ ~Truthy(config.output_image_path)
      THEN <<"Choose at least one output: text file or image file.">>
      ELSE <<>>)
  \o (IF ToNumber(config.scale_down) <= 0
      THEN <<"Scale down must be greater than 0.">> ELSE <<>>)
  \o (IF ToNumber(config.font_size) <= 0
      THEN <<"Font size must be greater than 0.">> ELSE <<>>)
  \o (IF ToNumber(config.height_sample_scale) <= 0
      THEN <<"Height sample scale must be greater than 0.">> ELSE <<>>)

canSubmitImage ==
  ~imagePanel.processing /\ Len(validationErrorsImage(imagePanel.config)) = 0

\* watch(config, ..., { deep: true })
watchImageConfig(config) ==
  [localStorage EXCEPT ![IMAGE_STORAGE_KEY] = JSONstringify(config)]

ImageFieldInputs ==
  [image_path |-> Strs,
   scale_down |-> NumInputs(1000),
   font_size |-> NumInputs(12000),
   height_sample_scale |-> NumInputs(2046),
   invert |-> BOOLEAN,
   output_file_path |-> Strs,
   output_image_path |-> Strs,
   overwrite |-> BOOLEAN]

\* v-model on an input of the Image form; every input is disabled while
\* processing.
editImageConfig(field, value) ==
  /\ activeTab = "image"
  /\ ~imagePanel.processing
  /\ imagePanel.config[field] # value
  /\ LET config == [imagePanel.config EXCEPT ![field] = value]
     IN /\ imagePanel' = [imagePanel EXCEPT !.config = config]
        /\ localStorage' = watchImageConfig(config)
  /\ UNCHANGED <<activeTab, videoVars, imageInstances, imageReqs,
                 engineVars>>

\* pickImage, pickTextOutput and pickImageOutput: the dialog's path goes into
\* the field.
ImagePickers ==
  [image_path |-> {<<"a">>},
   output_file_path |-> {<<"t">>},
   output_image_path |-> {<<"i">>}]

pickImageField(field, selected) ==
  /\ activeTab = "image"
  /\ ~imagePanel.processing
  /\ imagePanel.config[field] # selected
  /\ LET config == [imagePanel.config EXCEPT ![field] = selected]
     IN /\ imagePanel' = [imagePanel EXCEPT !.config = config]
        /\ localStorage' = watchImageConfig(config)
  /\ UNCHANGED <<activeTab, videoVars, imageInstances, imageReqs,
                 engineVars>>

\* A reset that leaves the error message in place.
resetStatusKeepsError ==
  /\ activeTab = "image"
  /\ ~imagePanel.processing
  /\ imagePanel' = [imagePanel EXCEPT
       !.status = "idle",
       !.statusDetail = "Ready to process an image",
       !.outputs = <<>>]
  /\ UNCHANGED <<activeTab, localStorage, videoVars, imageInstances, imageReqs,
                 engineVars>>

resetStatus ==
  /\ activeTab = "image"
  /\ ~imagePanel.processing
  /\ imagePanel' = [imagePanel EXCEPT
       !.status = "idle",
       !.statusDetail = "Ready to process an image",
       !.processError = <<>>,
       !.outputs = <<>>]
  /\ UNCHANGED <<activeTab, localStorage, videoVars, imageInstances, imageReqs,
                 engineVars>>

imagePayload(config) ==
  [config EXCEPT
     !.output_file_path = TrimOrNull(config.output_file_path),
     !.output_image_path = TrimOrNull(config.output_image_path)]

processImage ==
  /\ activeTab = "image"
  /\ canSubmitImage
  /\ imagePanel' = [imagePanel EXCEPT
       !.processError = <<>>,
       !.status = "processing",
       !.statusDetail = "Converting image...",
       !.outputs = <<>>,
       !.processing = TRUE]
  /\ imageReqs' = imageReqs \cup
       {[owner |-> imagePanel.id, config |-> imagePayload(imagePanel.config)]}
  /\ UNCHANGED <<activeTab, localStorage, videoVars, imageInstances,
                 engineVars>>

\* [output_file_path, output_image_path].filter(Boolean)
payloadOutputs(payload) ==
  SelectSeq(<<payload.output_file_path, payload.output_image_path>>, Truthy)

processImageResolved(r) ==
  /\ r \in imageReqs
  /\ imageReqs' = imageReqs \ {r}
  /\ imagePanel' =
       IF r.owner = imagePanel.id
       THEN [imagePanel EXCEPT
               !.status = "done",
               !.statusDetail = "ASCII image ready",
               !.outputs = payloadOutputs(r.config),
               !.processing = FALSE]
       ELSE imagePanel
  /\ UNCHANGED <<activeTab, localStorage, videoVars, imageInstances,
                 engineVars>>

processImageRejected(r, error) ==
  /\ r \in imageReqs
  /\ imageReqs' = imageReqs \ {r}
  /\ imagePanel' =
       IF r.owner = imagePanel.id
       THEN [imagePanel EXCEPT
               !.processError = <<error>>,
               !.status = "error",
               !.statusDetail = "Something went wrong",
               !.processing = FALSE]
       ELSE imagePanel
  /\ UNCHANGED <<activeTab, localStorage, videoVars, imageInstances,
                 engineVars>>

--------------------------------------------------------------------------
(* App.vue: the tab buttons. The panel of the tab left is unmounted, the   *)
(* panel of the tab opened is created and mounted.                         *)

clickImageTab ==
  /\ activeTab = "video"
  /\ imageInstances < MaxInstances
  /\ activeTab' = "image"
  \* onUnmounted of the Video instance
  /\ listeners' = IF videoPanel.progressListener
                  THEN listeners \ {videoPanel.id}
                  ELSE listeners
  /\ videoPanel' = NoVideoPanel
  /\ imageInstances' = imageInstances + 1
  /\ imagePanel' = NewImagePanel(imageInstances + 1, localStorage)
  /\ UNCHANGED <<localStorage, instances, listenPending, videoReqs,
                 watchers, imageReqs,
                 engineVars>>

clickVideoTab ==
  /\ activeTab = "image"
  /\ instances < MaxInstances
  /\ activeTab' = "video"
  /\ imagePanel' = NoImagePanel
  /\ instances' = instances + 1
  /\ videoPanel' = NewVideoPanel(instances + 1, localStorage)
  \* onMounted: attachProgressListener starts listen("video-progress")
  /\ listenPending' = listenPending \cup {instances + 1}
  /\ UNCHANGED <<localStorage, listeners, videoReqs, watchers,
                 imageInstances, imageReqs,
                 engineVars>>

--------------------------------------------------------------------------
(* The engine's Video Pipeline:                                            *)
(* Idle -> Opening -> Streaming(n) -> Finalizing -> Done/Failed/Cancelled. *)
(* Frames are numbered 1..nFrames in presentation order.  A ProgressReport *)
(* is a ratio <<numerator, denominator>>.                                  *)

\* Frames in the longest input container streamed over every interleaving.
MaxFrames == 4
\* Frames in the long input container, streamed one frame at a time.
LongInput == 100
\* Workers of the bounded pool that samples and rasterizes frames.
PoolSize == 2

One == <<1, 1>>
RatioLeq(a, b) == a[1] * b[2] <= b[1] * a[2]
RatioEq(a, b) == a[1] * b[2] = b[1] * a[2]
InUnitInterval(a) == RatioLeq(<<0, 1>>, a) /\ RatioLeq(a, One)

\* A config the shell is expected to send, and the ones the engine must
\* re-validate against.
EngineVideoConfig ==
  [defaultVideoConfig EXCEPT
     !.video_path = <<"a">>,
     !.output_video_path = <<"a", "/", "output.mp4">>]

EngineVideoConfigs ==
  {EngineVideoConfig,
   [EngineVideoConfig EXCEPT !.overwrite = TRUE],
   [EngineVideoConfig EXCEPT !.max_fps = <<30000>>,
                             !.use_max_fps_for_output_video = TRUE],
   [EngineVideoConfig EXCEPT !.scale_down = <<0>>],
   [EngineVideoConfig EXCEPT !.rotate = 3],
   [EngineVideoConfig EXCEPT !.output_video_path = Null]}

\* Native frame rate of the input containers, in thousandths of a frame
\* per second.
NativeRates == {30000}
\* Native rates that are not a multiple of max_fps as well.
ThrottleRates == {24000, 30000, 60000}

\* A validation that accepts any rotate value.
validVideoConfigAnyRotate(config) ==
  /\ config.output_video_path # Null /\ config.output_video_path # <<>>
  /\ ToNumber(config.scale_down) > 0
  /\ ToNumber(config.font_size) > 0
  /\ ToNumber(config.height_sample_scale) > 0
  /\ ToNumber(config.max_fps) > 0

\* InvalidConfig: a non-positive numeric field, no output sink, or an
\* unsupported rotate value.
validVideoConfig(config) ==
  /\ config.output_video_path # Null /\ config.output_video_path # <<>>
  /\ ToNumber(config.scale_down) > 0
  /\ ToNumber(config.font_size) > 0
  /\ ToNumber(config.height_sample_scale) > 0
  /\ ToNumber(config.max_fps) > 0
  /\ config.rotate \in {-1, 0, 1, 2}

\* native_fps / max_fps, rounded: the stride of the frames kept.
throttleStride(nativeFps, maxFps) ==
  IF nativeFps > maxFps
  THEN (2 * nativeFps + maxFps) \div (2 * maxFps)
  ELSE 1

\* Keeping the last frame of every stride instead of the first.
keptFrameLastOfStride(i, stride) == i % stride = 0

\* Every stride-th frame is kept, starting with the first.
keptFrame(i, stride) == (i - 1) % stride = 0

\* The run of one request: what the request and the file system give it
\* (config, nFrames, estimate, nativeFps, readable) and the run's own state.
\* estimate 0 is an unknown total_frames_estimate.
NewVideoRun(config, nFrames, estimate, nativeFps, readable, exists) ==
  [config |-> config,
   nFrames |-> nFrames,
   estimate |-> estimate,
   nativeFps |-> nativeFps,
   readable |-> readable,
   state |-> "Idle",
   error |-> <<>>,
   stride |-> 1,
   outputRate |-> 0,
   nextDecode |-> 1,
   inflight |-> {},
   reorder |-> {},
   nextAppend |-> 1,
   encoded |-> <<>>,
   framesConsumed |-> 0,
   reports |-> <<>>,
   output |-> IF exists THEN "existing" ELSE "absent",
   encoderOpen |-> FALSE,
   cancelFlag |-> FALSE,
   cancelObserved |-> FALSE]

NoVideoRun == NewVideoRun(EngineVideoConfig, 1, 1, 30000, TRUE, FALSE)

\* InvalidConfig is checked eagerly, before any work.
videoRejectInvalidConfig ==
  /\ videoRun.state = "Idle"
  /\ ~validVideoConfig(videoRun.config)
  /\ videoRun' = [videoRun EXCEPT
       !.state = "Failed", !.error = <<"InvalidConfig">>]
  /\ UNCHANGED <<shellVars, imageRun>>

\* The overwrite guard, checked once before Opening.
videoRejectOutputExists ==
  /\ videoRun.state = "Idle"
  /\ validVideoConfig(videoRun.config)
  /\ videoRun.output = "existing" /\ ~videoRun.config.overwrite
  /\ videoRun' = [videoRun EXCEPT
       !.state = "Failed", !.error = <<"OutputExists">>]
  /\ UNCHANGED <<shellVars, imageRun>>

videoStart ==
  /\ videoRun.state = "Idle"
  /\ validVideoConfig(videoRun.config)
  /\ ~(videoRun.output = "existing" /\ ~videoRun.config.overwrite)
  /\ videoRun' = [videoRun EXCEPT !.state = "Opening"]
  /\ UNCHANGED <<shellVars, imageRun>>

\* Opening: an unreadable container fails with DecodeError.
videoOpenFailed ==
  /\ videoRun.state = "Opening"
  /\ ~videoRun.readable
  /\ videoRun' = [videoRun EXCEPT
       !.state = "Failed", !.error = <<"DecodeError">>]
  /\ UNCHANGED <<shellVars, imageRun>>

\* Opening succeeds: the native rate gives the stride and the output rate,
\* the encoder is created on the output path.
videoOpened ==
  /\ videoRun.state = "Opening"
  /\ videoRun.readable
  /\ videoRun' = [videoRun EXCEPT
       !.state = "Streaming",
       !.stride = throttleStride(videoRun.nativeFps,
                                 ToNumber(videoRun.config.max_fps)),
       !.outputRate =
         IF videoRun.config.use_max_fps_for_output_video
         THEN Min(videoRun.nativeFps, ToNumber(videoRun.config.max_fps))
         ELSE videoRun.nativeFps,
       !.output = "partial",
       !.encoderOpen = TRUE]
  /\ UNCHANGED <<shellVars, imageRun>>

\* Streaming, between frames: the next frame in presentation order is
\* decoded; a kept frame goes to a free worker (rotate, sample, rasterize),
\* a frame off the stride is dropped.
videoDecodeFrame ==
  /\ videoRun.state = "Streaming"
  /\ ~videoRun.cancelObserved
  /\ videoRun.nextDecode <= videoRun.nFrames
  /\ LET i == videoRun.nextDecode
     IN IF keptFrame(i, videoRun.stride)
        THEN /\ Cardinality(videoRun.inflight) < PoolSize
             /\ videoRun' = [videoRun EXCEPT
                  !.nextDecode = i + 1,
                  !.inflight = @ \cup {i}]
        ELSE videoRun' = [videoRun EXCEPT !.nextDecode = i + 1]
  /\ UNCHANGED <<shellVars, imageRun>>

\* A worker finishes its frame, in any order; the rasterized frame waits in
\* the reorder buffer, keyed by its sequence number.
videoWorkerDone(i) ==
  /\ videoRun.state = "Streaming"
  /\ i \in videoRun.inflight
  /\ videoRun' = [videoRun EXCEPT
       !.inflight = @ \ {i},
       !.reorder = @ \cup {i}]
  /\ UNCHANGED <<shellVars, imageRun>>

\* frames_consumed / total_frames_estimate; with an unknown estimate, an
\* increasing value that is not linear in the frame count.
progressRatio(framesConsumed, estimate) ==
  IF estimate = 0
  THEN <<framesConsumed, framesConsumed + 1>>
  ELSE <<framesConsumed, estimate>>

\* Unordered writers: the encoder takes whichever finished frame is there.
anyFinishedFrame(run) == run.reorder

\* The frame the encoder takes from the reorder buffer.
nextFrameToAppend(run) ==
  IF run.nextAppend \in run.reorder THEN {run.nextAppend} ELSE {}

\* The next frame in sequence is appended to the encoder and a
\* ProgressReport is emitted.
videoAppendFrame(i) ==
  /\ videoRun.state = "Streaming"
  /\ i \in nextFrameToAppend(videoRun)
  /\ LET consumed == videoRun.framesConsumed + 1
     IN videoRun' = [videoRun EXCEPT
          !.reorder = @ \ {i},
          !.nextAppend = i + 1,
          !.encoded = Append(@, i),
          !.framesConsumed = consumed,
          !.reports = Append(@, progressRatio(consumed, videoRun.estimate))]
  /\ UNCHANGED <<shellVars, imageRun>>

\* A dropped frame is consumed in its turn without reaching the encoder.
videoSkipDropped ==
  /\ videoRun.state = "Streaming"
  /\ videoRun.nextAppend < videoRun.nextDecode
  /\ ~keptFrame(videoRun.nextAppend, videoRun.stride)
  /\ videoRun' = [videoRun EXCEPT
       !.nextAppend = @ + 1,
       !.framesConsumed = @ + 1]
  /\ UNCHANGED <<shellVars, imageRun>>

\* The caller raises the cancellation flag of an active run.
videoRequestCancel ==
  /\ videoRun.state \in {"Opening", "Streaming", "Finalizing"}
  /\ ~videoRun.cancelFlag
  /\ videoRun' = [videoRun EXCEPT !.cancelFlag = TRUE]
  /\ UNCHANGED <<shellVars, imageRun>>

\* Between frames, before the next frame is decoded, the run checks the
\* flag; it then decodes no more.
videoObserveCancel ==
  /\ videoRun.state = "Streaming"
  /\ videoRun.cancelFlag /\ ~videoRun.cancelObserved
  /\ videoRun.nextDecode <= videoRun.nFrames
  /\ videoRun' = [videoRun EXCEPT !.cancelObserved = TRUE]
  /\ UNCHANGED <<shellVars, imageRun>>

\* Once no worker holds a frame the run unwinds: the encoder is released,
\* the partial output deleted.
videoUnwind ==
  /\ videoRun.state = "Streaming"
  /\ videoRun.cancelObserved
  /\ videoRun.inflight = {}
  /\ videoRun' = [videoRun EXCEPT
       !.state = "Cancelled",
       !.reorder = {},
       !.encoderOpen = FALSE,
       !.output = "absent"]
  /\ UNCHANGED <<shellVars, imageRun>>

\* A failed run that leaves its output file as it is.
outputLeftBehind(output) == output

\* What a failed run leaves at output_video_path.
outputAfterFailure(output) == "absent"

StreamErrors == {"DecodeError", "InvalidDimensions", "UnsupportedFont"}

\* Any failure while Streaming: Failed, the partial output deleted.
videoStreamFailed(error) ==
  /\ videoRun.state = "Streaming"
  /\ videoRun' = [videoRun EXCEPT
       !.state = "Failed",
       !.error = <<error>>,
       !.inflight = {},
       !.reorder = {},
       !.encoderOpen = FALSE,
       !.output = outputAfterFailure(videoRun.output)]
  /\ UNCHANGED <<shellVars, imageRun>>

\* Every frame is consumed: the stream is complete.
videoFinishStreaming ==
  /\ videoRun.state = "Streaming"
  /\ ~videoRun.cancelObserved
  /\ videoRun.nextAppend > videoRun.nFrames
  /\ videoRun' = [videoRun EXCEPT !.state = "Finalizing"]
  /\ UNCHANGED <<shellVars, imageRun>>

\* Finalizing: the mux fails with MuxError.
videoMuxFailed ==
  /\ videoRun.state = "Finalizing"
  /\ videoRun.encoderOpen
  /\ videoRun' = [videoRun EXCEPT
       !.state = "Failed",
       !.error = <<"MuxError">>,
       !.encoderOpen = FALSE,
       !.output = outputAfterFailure(videoRun.output)]
  /\ UNCHANGED <<shellVars, imageRun>>

\* Finalizing: the streams are muxed, the output file flushed and closed.
videoMuxed ==
  /\ videoRun.state = "Finalizing"
  /\ videoRun.encoderOpen
  /\ videoRun' = [videoRun EXCEPT
       !.encoderOpen = FALSE,
       !.output = "complete"]
  /\ UNCHANGED <<shellVars, imageRun>>

\* The final ProgressReport of 1.0, after the file is closed.
videoDone ==
  /\ videoRun.state = "Finalizing"
  /\ videoRun.output = "complete"
  /\ videoRun' = [videoRun EXCEPT
       !.state = "Done",
       !.reports = Append(@, One)]
  /\ UNCHANGED <<shellVars, imageRun>>

--------------------------------------------------------------------------
(* The engine's Image Pipeline:                                            *)
(* Idle -> Decoding -> Sampling -> Writing -> Done/Failed.                 *)

EngineImageConfig ==
  [defaultImageConfig EXCEPT !.image_path = <<"a">>]

EngineImageConfigs ==
  {[EngineImageConfig EXCEPT !.output_file_path = <<"t">>],
   [EngineImageConfig EXCEPT !.output_image_path = <<"i">>],
   [EngineImageConfig EXCEPT !.output_file_path = <<"t">>,
                             !.output_image_path = <<"i">>],
   [EngineImageConfig EXCEPT !.output_file_path = <<"t">>,
                             !.output_image_path = <<"i">>,
                             !.overwrite = TRUE],
   EngineImageConfig,
   [EngineImageConfig EXCEPT !.output_file_path = <<"t">>,
                             !.font_size = <<0>>]}

\* InvalidConfig: a non-positive numeric field or no output sink.
validImageConfig(config) ==
  /\ config.output_file_path # Null \/ config.output_image_path # Null
  /\ ToNumber(config.scale_down) > 0
  /\ ToNumber(config.font_size) > 0
  /\ ToNumber(config.height_sample_scale) > 0

textRequested(config) == config.output_file_path # Null
imageRequested(config) == config.output_image_path # Null

\* The run of one request: what the request and the file system give it
\* (config; the input decodes; the sampled grid is not empty; the font is
\* fixed-pitch; the image path's extension is supported; which destinations
\* exist) and the run's own state.
NewImageRun(config, decodable, dimsOk, fixedPitch, formatOk, textExists, imageExists) ==
  [config |-> config,
   decodable |-> decodable,
   dimsOk |-> dimsOk,
   fixedPitch |-> fixedPitch,
   formatOk |-> formatOk,
   state |-> "Idle",
   sink |-> "none",
   error |-> <<>>,
   textFile |-> IF textExists THEN "existing" ELSE "absent",
   imageFile |-> IF imageExists THEN "existing" ELSE "absent"]

NoImageRun ==
  NewImageRun([EngineImageConfig EXCEPT !.output_file_path = <<"t">>],
              TRUE, TRUE, TRUE, TRUE, FALSE, FALSE)

imageRejectInvalidConfig ==
  /\ imageRun.state = "Idle"
  /\ ~validImageConfig(imageRun.config)
  /\ imageRun' = [imageRun EXCEPT
       !.state = "Failed", !.error = <<"InvalidConfig">>]
  /\ UNCHANGED <<shellVars, videoRun>>

imageStart ==
  /\ imageRun.state = "Idle"
  /\ validImageConfig(imageRun.config)
  /\ imageRun' = [imageRun EXCEPT !.state = "Decoding"]
  /\ UNCHANGED <<shellVars, videoRun>>

\* Decoding: an unsupported or corrupt input fails with DecodeError.
imageDecode ==
  /\ imageRun.state = "Decoding"
  /\ imageRun' =
       IF imageRun.decodable
       THEN [imageRun EXCEPT !.state = "Sampling"]
       ELSE [imageRun EXCEPT !.state = "Failed", !.error = <<"DecodeError">>]
  /\ UNCHANGED <<shellVars, videoRun>>

\* Sampling: the Frame Sampler runs once; a target dimension of 0 fails
\* with InvalidDimensions.
imageSample ==
  /\ imageRun.state = "Sampling"
  /\ imageRun' =
       IF imageRun.dimsOk
       THEN [imageRun EXCEPT !.state = "Writing", !.sink = "check"]
       ELSE [imageRun EXCEPT
               !.state = "Failed", !.error = <<"InvalidDimensions">>]
  /\ UNCHANGED <<shellVars, videoRun>>

\* A requested destination exists and overwrite is false.
outputExists(run) ==
  /\ ~run.config.overwrite
  /\ \/ textRequested(run.config) /\ run.textFile = "existing"
     \/ imageRequested(run.config) /\ run.imageFile = "existing"

\* Writing: every requested sink is checked against overwrite before any
\* sink is written.
imageCheckSinks ==
  /\ imageRun.state = "Writing" /\ imageRun.sink = "check"
  /\ imageRun' =
       IF outputExists(imageRun)
       THEN [imageRun EXCEPT !.state = "Failed", !.error = <<"OutputExists">>]
       ELSE [imageRun EXCEPT !.sink = "text"]
  /\ UNCHANGED <<shellVars, videoRun>>

\* The text sink writes the grid, one row per line.
imageWriteText ==
  /\ imageRun.state = "Writing" /\ imageRun.sink = "text"
  /\ imageRun' =
       IF textRequested(imageRun.config)
       THEN [imageRun EXCEPT !.textFile = "written", !.sink = "image"]
       ELSE [imageRun EXCEPT !.sink = "image"]
  /\ UNCHANGED <<shellVars, videoRun>>

\* The image sink rasterizes the grid (UnsupportedFont when the face is not
\* fixed-pitch), then encodes to the format of the destination's extension
\* (UnsupportedOutputFormat).  A failure leaves what was already written.
imageWriteImage ==
  /\ imageRun.state = "Writing" /\ imageRun.sink = "image"
  /\ imageRun' =
       IF ~imageRequested(imageRun.config)
       THEN [imageRun EXCEPT !.state = "Done"]
       ELSE IF ~imageRun.fixedPitch
       THEN [imageRun EXCEPT
               !.state = "Failed", !.error = <<"UnsupportedFont">>]
       ELSE IF ~imageRun.formatOk
       THEN [imageRun EXCEPT
               !.state = "Failed", !.error = <<"UnsupportedOutputFormat">>]
       ELSE [imageRun EXCEPT !.imageFile = "written", !.state = "Done"]
  /\ UNCHANGED <<shellVars, videoRun>>

--------------------------------------------------------------------------
(* The state after the App is constructed: the video tab is shown, its     *)
(* Video instance has run setup and onMounted.                             *)

Init ==
  /\ activeTab = "video"
  /\ localStorage = NoStorage
  /\ videoPanel = NewVideoPanel(1, NoStorage)
  /\ instances = 1
  /\ listenPending = {1}
  /\ listeners = {}
  /\ videoReqs = {}
  /\ watchers = {}
  /\ imagePanel = NoImagePanel
  /\ imageInstances = 0
  /\ imageReqs = {}
  /\ videoRun = NoVideoRun
  /\ imageRun = NoImageRun

\* The shell: both panels driven through their buttons and dialogs.
Next ==
  \/ clickImageTab
  \/ clickVideoTab
  \/ \E selected \in DialogFiles : pickVideoFile(selected)
  \/ \E selected \in DialogDirs : pickOutputFile(selected)
  \/ resetState
  \/ processVideo
  \/ \E r \in videoReqs : processVideoResolved(r)
  \/ \E r \in videoReqs : \E error \in Errors : processVideoRejected(r, error)
  \/ \E id \in watchers : videoProgressSettled(id)
  \/ \E id \in listenPending : listenResolved(id)
  \/ \E payload \in ProgressPayloads : videoProgressEvent(payload)
  \/ \E field \in DOMAIN ImagePickers :
       \E selected \in ImagePickers[field] : pickImageField(field, selected)
  \/ resetStatus
  \/ processImage
  \/ \E r \in imageReqs : processImageResolved(r)
  \/ \E r \in imageReqs : \E error \in Errors : processImageRejected(r, error)

Spec == Init /\ [][Next]_vars

\* The Video form alone: one instance, its typed inputs and its buttons.
NextVideoForm ==
  \/ \E field \in DOMAIN VideoFieldInputs :
       \E value \in VideoFieldInputs[field] : editVideoConfig(field, value)
  \/ resetState
  \/ processVideo
  \/ \E r \in videoReqs : processVideoResolved(r)
  \/ \E r \in videoReqs : \E error \in Errors : processVideoRejected(r, error)

SpecVideoForm == Init /\ [][NextVideoForm]_vars

\* The Image form alone, from the first time the image tab is opened.
InitImageForm ==
  /\ activeTab = "image"
  /\ localStorage = NoStorage
  /\ videoPanel = NoVideoPanel
  /\ instances = 1
  /\ listenPending = {1}
  /\ listeners = {}
  /\ videoReqs = {}
  /\ watchers = {}
  /\ imagePanel = NewImagePanel(1, NoStorage)
  /\ imageInstances = 1
  /\ imageReqs = {}
  /\ videoRun = NoVideoRun
  /\ imageRun = NoImageRun

NextImageForm ==
  \/ \E field \in DOMAIN ImageFieldInputs :
       \E value \in ImageFieldInputs[field] : editImageConfig(field, value)
  \/ resetStatus
  \/ processImage
  \/ \E r \in imageReqs : processImageResolved(r)
  \/ \E r \in imageReqs : \E error \in Errors : processImageRejected(r, error)

SpecImageForm == InitImageForm /\ [][NextImageForm]_vars

\* The shell of a freshly started App, left alone while the engine runs.
ShellIdle ==
  /\ activeTab = "video"
  /\ localStorage = NoStorage
  /\ videoPanel = NewVideoPanel(1, NoStorage)
  /\ instances = 1
  /\ listenPending = {1}
  /\ listeners = {}
  /\ videoReqs = {}
  /\ watchers = {}
  /\ imagePanel = NoImagePanel
  /\ imageInstances = 0
  /\ imageReqs = {}

\* The Video Pipeline on one request, over every input.
InitVideoEngine ==
  /\ ShellIdle
  /\ imageRun = NoImageRun
  /\ \E config \in EngineVideoConfigs, nFrames \in 1..MaxFrames,
        estimate \in 0..(MaxFrames + 1), nativeFps \in NativeRates,
        readable \in BOOLEAN, exists \in BOOLEAN :
       videoRun = NewVideoRun(config, nFrames, estimate, nativeFps,
                              readable, exists)

NextVideoEngine ==
  \/ videoRejectInvalidConfig
  \/ videoRejectOutputExists
  \/ videoStart
  \/ videoOpenFailed
  \/ videoOpened
  \/ videoDecodeFrame
  \/ \E i \in 1..MaxFrames : videoWorkerDone(i)
  \/ \E i \in 1..MaxFrames : videoAppendFrame(i)
  \/ videoSkipDropped
  \/ videoRequestCancel
  \/ videoObserveCancel
  \/ videoUnwind
  \/ \E error \in StreamErrors : videoStreamFailed(error)
  \/ videoFinishStreaming
  \/ videoMuxFailed
  \/ videoMuxed
  \/ videoDone

SpecVideoEngine == InitVideoEngine /\ [][NextVideoEngine]_vars

\* The Image Pipeline on one request, over every input.
InitImageEngine ==
  /\ ShellIdle
  /\ videoRun = NoVideoRun
  /\ \E config \in EngineImageConfigs, decodable \in BOOLEAN,
        dimsOk \in BOOLEAN, fixedPitch \in BOOLEAN, formatOk \in BOOLEAN,
        textExists \in BOOLEAN, imageExists \in BOOLEAN :
       imageRun = NewImageRun(config, decodable, dimsOk, fixedPitch,
                              formatOk, textExists, imageExists)

NextImageEngine ==
  \/ imageRejectInvalidConfig
  \/ imageStart
  \/ imageDecode
  \/ imageSample
  \/ imageCheckSinks
  \/ imageWriteText
  \/ imageWriteImage

SpecImageEngine == InitImageEngine /\ [][NextImageEngine]_vars

\* What localStorage holds when the App starts: nothing, a text that is
\* not JSON, or the JSON of a config saved without some of today's fields.
StoredVideoTexts ==
  {Absent, Unparseable,
   JSONstringify([video_path |-> <<"a">>, rotate |-> 2])}

StoredImageTexts ==
  {Absent, Unparseable,
   JSONstringify([image_path |-> <<"a">>, output_file_path |-> Null])}

\* The form fields edited in the persistence runs.
PersistedVideoFields == {"video_path", "max_fps", "rotate"}
PersistedImageFields == {"image_path", "font_size", "output_file_path"}

InitPersistence ==
  /\ activeTab = "video"
  /\ \E video \in StoredVideoTexts, image \in StoredImageTexts :
       localStorage = [k \in {VIDEO_STORAGE_KEY, IMAGE_STORAGE_KEY} |->
                         IF k = VIDEO_STORAGE_KEY THEN video ELSE image]
  /\ videoPanel = NewVideoPanel(1, localStorage)
  /\ instances = 1
  /\ listenPending = {1}
  /\ listeners = {}
  /\ videoReqs = {}
  /\ watchers = {}
  /\ imagePanel = NoImagePanel
  /\ imageInstances = 0
  /\ imageReqs = {}
  /\ videoRun = NoVideoRun
  /\ imageRun = NoImageRun

\* Edits in both forms and re-creation of the panels by the tab buttons.
NextPersistence ==
  \/ \E field \in PersistedVideoFields :
       \E value \in VideoFieldInputs[field] : editVideoConfig(field, value)
  \/ \E selected \in DialogDirs : pickOutputFile(selected)
  \/ \E field \in PersistedImageFields :
       \E value \in ImageFieldInputs[field] : editImageConfig(field, value)
  \/ clickImageTab
  \/ clickVideoTab

SpecPersistence == InitPersistence /\ [][NextPersistence]_vars

\* The Video Pipeline on readable inputs that nothing interrupts, at several
\* native rates.  The frames of a short input go through the worker pool in
\* every order; the long input is streamed one frame at a time.
InitThrottle ==
  /\ ShellIdle
  /\ imageRun = NoImageRun
  /\ \E config \in {EngineVideoConfig,
                     [EngineVideoConfig EXCEPT !.max_fps = <<30000>>]},
        nFrames \in (1..MaxFrames) \cup {LongInput},
        nativeFps \in ThrottleRates :
       videoRun = NewVideoRun(config, nFrames, nFrames, nativeFps,
                              TRUE, FALSE)

NextThrottle ==
  \/ videoStart
  \/ videoOpened
  \/ /\ \/ videoRun.nFrames <= MaxFrames
        \/ videoRun.inflight = {} /\ videoRun.reorder = {}
     /\ videoDecodeFrame
  \/ \E i \in 1..LongInput : videoWorkerDone(i)
  \/ \E i \in 1..LongInput : videoAppendFrame(i)
  \/ videoSkipDropped
  \/ videoFinishStreaming
  \/ videoMuxed
  \/ videoDone

SpecThrottle == InitThrottle /\ [][NextThrottle]_vars

\* The engine serving one request, a video or an image: the command that
\* was not called stays as it is.
InitEngine ==
  /\ ShellIdle
  /\ \/ /\ imageRun = NoImageRun
        /\ \E config \in EngineVideoConfigs, nFrames \in 1..MaxFrames,
              estimate \in 0..(MaxFrames + 1), nativeFps \in NativeRates,
              readable \in BOOLEAN, exists \in BOOLEAN :
             videoRun = NewVideoRun(config, nFrames, estimate, nativeFps,
                                    readable, exists)
     \/ /\ videoRun = NoVideoRun
        /\ \E config \in EngineImageConfigs, decodable \in BOOLEAN,
              dimsOk \in BOOLEAN, fixedPitch \in BOOLEAN,
              formatOk \in BOOLEAN, textExists \in BOOLEAN,
              imageExists \in BOOLEAN :
             imageRun = NewImageRun(config, decodable, dimsOk, fixedPitch,
                                    formatOk, textExists, imageExists)

NextEngine ==
  \/ imageRun = NoImageRun /\ NextVideoEngine
  \/ videoRun = NoVideoRun /\ NextImageEngine

SpecEngine == InitEngine /\ [][NextEngine]_vars

--------------------------------------------------------------------------
(* Claims about the shell.                                                 *)

\* C1: over any sequence of submits, tab switches and completions, at most
\* one process_video request issued by the shell is outstanding.
C1_AtMostOneVideoRun == Cardinality(videoReqs) <= 1

\* C2: whenever process_video is invoked, the listen("video-progress")
\* registration of the invoking instance has completed (its
\* progressListener is set).
C2_SubscribedBeforeRequest ==
  [][videoReqs' # videoReqs /\ videoReqs \subseteq videoReqs'
       => videoPanel.progressListener]_vars

\* The image RenderConfig invariant on a forwarded payload.
ImageConfigInvariant(config) ==
  /\ config.output_file_path # Null \/ config.output_image_path # Null
  /\ config.scale_down # <<>> /\ ToNumber(config.scale_down) > 0
  /\ config.font_size # <<>> /\ ToNumber(config.font_size) > 0
  /\ config.height_sample_scale # <<>>
  /\ ToNumber(config.height_sample_scale) > 0

\* C3: every config the Image panel forwards to process_image names at
\* least one non-null output path and has positive scale_down, font_size and
\* height_sample_scale.
C3_ImagePayloadValid ==
  \A r \in imageReqs : ImageConfigInvariant(r.config)

\* The video RenderConfig invariant on a forwarded payload.
VideoConfigInvariant(config) ==
  /\ Trim(config.video_path) # <<>>
  /\ config.output_video_path # Null /\ config.output_video_path # <<>>
  /\ config.scale_down # <<>> /\ ToNumber(config.scale_down) > 0
  /\ config.font_size # <<>> /\ ToNumber(config.font_size) > 0
  /\ config.height_sample_scale # <<>>
  /\ ToNumber(config.height_sample_scale) > 0
  /\ config.max_fps # <<>> /\ ToNumber(config.max_fps) > 0
  /\ config.rotate \in {-1, 0, 1, 2}

\* C4: every config the Video panel forwards to process_video has a
\* non-blank video_path, a non-null non-empty output_video_path, positive
\* scale_down, font_size, height_sample_scale and max_fps, and a rotate of
\* -1, 0, 1 or 2.
C4_VideoPayloadValid ==
  \A r \in videoReqs : VideoConfigInvariant(r.config)

\* C4 witness: a config edited in the form (rotated 90 CCW, overwrite set)
\* has been forwarded.
C4_Witness ==
  \E r \in videoReqs : r.config.rotate = 2 /\ r.config.overwrite

--------------------------------------------------------------------------
(* Claims about the engine.                                                *)

\* C5: within one video run every ProgressReport emitted is within [0,1]
\* and the sequence of reports is non-decreasing.
C5_ProgressBoundedMonotone ==
  \A i \in 1..Len(videoRun.reports) :
    /\ InUnitInterval(videoRun.reports[i])
    /\ \A j \in (i + 1)..Len(videoRun.reports) :
         RatioLeq(videoRun.reports[i], videoRun.reports[j])

\* C6: a ProgressReport of 1.0 is the final report of a run that is Done,
\* emitted after the output file is flushed and closed; no other run and no
\* earlier report carries 1.0.
C6_OneOnlyAsFinalReport ==
  \A i \in 1..Len(videoRun.reports) :
    RatioEq(videoRun.reports[i], One)
      => /\ i = Len(videoRun.reports)
         /\ videoRun.state = "Done"
         /\ videoRun.output = "complete"

\* C7: an image run that fails with OutputExists has written no sink, and a
\* finished image run has written all of its requested sinks or none.
C7_ImageSinksAllOrNothing ==
  LET textWritten == imageRun.textFile = "written"
      imageWritten == imageRun.imageFile = "written"
  IN /\ imageRun.error = <<"OutputExists">> => ~textWritten /\ ~imageWritten
     /\ imageRun.state \in {"Done", "Failed"}
          => \/ ~textWritten /\ ~imageWritten
             \/ /\ textRequested(imageRun.config) => textWritten
                /\ imageRequested(imageRun.config) => imageWritten

\* C8: a video run that fails while Streaming or Finalizing is Failed, has
\* released its encoder and leaves no output file; a Failed run leaves no
\* partial output and emits no further ProgressReport.
C8_FailedLeavesNoPartialOutput ==
  /\ [](videoRun.state = "Failed"
         => videoRun.output # "partial" /\ ~videoRun.encoderOpen)
  /\ [][/\ videoRun.state \in {"Streaming", "Finalizing"}
           /\ videoRun'.error # <<>>
           => /\ videoRun'.state = "Failed"
              /\ videoRun'.output = "absent"
              /\ ~videoRun'.encoderOpen
        /\ videoRun.state = "Failed"
           => /\ videoRun'.state = "Failed"
              /\ videoRun'.reports = videoRun.reports]_vars

\* C8 witness: a run failed in the mux after frames were encoded and
\* reported, and its output file is gone.
C8_Witness ==
  /\ videoRun.state = "Failed"
  /\ videoRun.error = <<"MuxError">>
  /\ Len(videoRun.encoded) >= 2
  /\ videoRun.reports # <<>>
  /\ videoRun.output = "absent"

\* C9: a cancelled run is in Cancelled with no frame in a worker, the
\* encoder released, the output file absent, and its last ProgressReport
\* below 1.0.
C9_CancelledRun ==
  videoRun.state = "Cancelled"
    => /\ videoRun.cancelFlag
       /\ videoRun.inflight = {}
       /\ ~videoRun.encoderOpen
       /\ videoRun.output = "absent"
       /\ videoRun.reports # <<>>
            => LET last == videoRun.reports[Len(videoRun.reports)]
               IN RatioLeq(last, One) /\ ~RatioEq(last, One)

\* C10: the encoder receives the frames in sequence: frame i before frame
\* i+1, whatever the order in which the workers finish.
C10_FrameOrderPreserved ==
  \A i, j \in 1..Len(videoRun.encoded) :
    i < j => videoRun.encoded[i] < videoRun.encoded[j]

\* C10 witness: a frame finished ahead of an earlier frame that a worker
\* still holds, and waits in the reorder buffer behind the frames encoded.
C10_Witness ==
  /\ videoRun.encoded # <<>>
  /\ \E k \in videoRun.reorder : \E i \in videoRun.inflight : i < k

\* The configs InvalidConfig is about.
InvalidVideoRequest(v) ==
  \/ ToNumber(v.scale_down) <= 0 \/ ToNumber(v.font_size) <= 0
  \/ ToNumber(v.height_sample_scale) <= 0 \/ ToNumber(v.max_fps) <= 0
  \/ v.output_video_path \in {Null, <<>>}
  \/ v.rotate \notin {-1, 0, 1, 2}

InvalidImageRequest(m) ==
  \/ ToNumber(m.scale_down) <= 0 \/ ToNumber(m.font_size) <= 0
  \/ ToNumber(m.height_sample_scale) <= 0
  \/ m.output_file_path = Null /\ m.output_image_path = Null

\* C11: a request whose config has a non-positive numeric field, no output
\* sink or an unsupported rotate value never leaves Idle except to Failed
\* with InvalidConfig: nothing is decoded, no ProgressReport is emitted, no
\* encoder is opened and the output files stay as they were.
C11_InvalidConfigEager ==
  /\ [](InvalidVideoRequest(videoRun.config) =>
         /\ videoRun.state \in {"Idle", "Failed"}
         /\ videoRun.state = "Failed" => videoRun.error = <<"InvalidConfig">>
         /\ videoRun.nextDecode = 1 /\ videoRun.encoded = <<>>
         /\ videoRun.reports = <<>> /\ ~videoRun.encoderOpen)
  /\ [](InvalidImageRequest(imageRun.config) =>
         /\ imageRun.state \in {"Idle", "Failed"}
         /\ imageRun.state = "Failed" => imageRun.error = <<"InvalidConfig">>)
  /\ [][/\ InvalidVideoRequest(videoRun.config)
             => videoRun'.output = videoRun.output
        /\ InvalidImageRequest(imageRun.config)
             => /\ imageRun'.textFile = imageRun.textFile
                /\ imageRun'.imageFile = imageRun.imageFile]_vars

\* C11 witness: a request with an unsupported rotate value was rejected and
\* the file at its output path is still there.
C11_Witness ==
  /\ videoRun.state = "Failed"
  /\ videoRun.error = <<"InvalidConfig">>
  /\ videoRun.config.rotate = 3
  /\ videoRun.output = "existing"

\* C12: once the container is open the stride k is native_fps / max_fps
\* rounded when the native rate exceeds max_fps (3 for 30 fps at max_fps
\* 10) and 1 otherwise; the frames encoded are frames 1, 1+k, 1+2k, ...;
\* a finished run has encoded ceil(nFrames / k) frames (34 of 100 at
\* stride 3), and all of them when max_fps is at least the native rate.
C12_ThrottleStride ==
  LET native == videoRun.nativeFps
      maxFps == ToNumber(videoRun.config.max_fps)
      k == videoRun.stride
      n == videoRun.nFrames
  IN /\ videoRun.state \notin {"Idle", "Opening"} =>
          /\ native > maxFps =>
               /\ 2 * maxFps * k - maxFps <= 2 * native
               /\ 2 * native <= 2 * maxFps * k + maxFps
          /\ native <= maxFps => k = 1
          /\ native = 30000 /\ maxFps = 10000 => k = 3
     /\ \A j \in 1..Len(videoRun.encoded) :
          videoRun.encoded[j] = 1 + (j - 1) * k
     /\ videoRun.state = "Done" =>
          /\ Len(videoRun.encoded) = (n + k - 1) \div k
          /\ native <= maxFps => Len(videoRun.encoded) = n
          /\ n = 100 /\ native = 30000 /\ maxFps = 10000
               => Len(videoRun.encoded) = 34

\* C12 witness: the 100-frame input at 30 fps with max_fps 10 is done with
\* 34 frames encoded.
C12_Witness ==
  /\ videoRun.state = "Done"
  /\ videoRun.nFrames = 100
  /\ videoRun.nativeFps = 30000
  /\ ToNumber(videoRun.config.max_fps) = 10000
  /\ Len(videoRun.encoded) = 34

\* C13: a video-progress event with a payload in [0,1] sets progress to
\* min(100, floor(payload * 100)), and progress is always an integer in
\* 0..100.
C13_ProgressPercent ==
  /\ [](videoPanel.progress \in 0..100)
  /\ [][\A payload \in ProgressPayloads :
          payload \in 0..1000 /\ videoProgressEvent(payload)
            => videoPanel'.progress
                 = (IF payload \div 10 <= 100 THEN payload \div 10 ELSE 100)
       ]_vars

\* C13 witness: the event with payload 0.505 has put the bar of a running
\* panel at 50.
C13_Witness ==
  /\ videoPanel.status = "processing"
  /\ videoPanel.progress = 50

\* C14: when the request of the mounted instance resolves its status
\* becomes "done", when it rejects its status becomes "error", in both
\* cases processing returns to false; and the status of an instance becomes
\* "done" or "error" only in a step that settles a request of its own.
C14_OneOutcomePerRun ==
  [][/\ \A r \in videoReqs :
          r.owner = videoPanel.id =>
            /\ processVideoResolved(r)
                 => videoPanel'.status = "done" /\ ~videoPanel'.processing
            /\ \A error \in Errors :
                 processVideoRejected(r, error)
                   => videoPanel'.status = "error" /\ ~videoPanel'.processing
     /\ \A r \in imageReqs :
          r.owner = imagePanel.id =>
            /\ processImageResolved(r)
                 => imagePanel'.status = "done" /\ ~imagePanel'.processing
            /\ \A error \in Errors :
                 processImageRejected(r, error)
                   => imagePanel'.status = "error" /\ ~imagePanel'.processing
     /\ /\ videoPanel'.id = videoPanel.id
        /\ videoPanel'.status \in {"done", "error"}
        /\ videoPanel'.status # videoPanel.status
        => \E r \in videoReqs :
             r.owner = videoPanel.id /\ videoReqs' = videoReqs \ {r}
     /\ /\ imagePanel'.id = imagePanel.id
        /\ imagePanel'.status \in {"done", "error"}
        /\ imagePanel'.status # imagePanel.status
        => \E r \in imageReqs :
             r.owner = imagePanel.id /\ imageReqs' = imageReqs \ {r}
    ]_vars

\* C14 witness: the request of the mounted Video instance was rejected and
\* the submit button is enabled again.
C14_Witness ==
  /\ videoPanel.status = "error"
  /\ videoReqs = {}
  /\ canSubmitVideo

\* C15: the config a re-created panel would load is the config of the
\* mounted panel as last edited, with every field of the default config
\* present; a panel whose stored text is absent or does not parse has the
\* default config; and the text stored for a panel does not change while
\* the panel is not mounted.
C15_ConfigPersisted ==
  /\ [](activeTab = "video" =>
         /\ loadPersistedConfigVideo(localStorage) = videoPanel.config
         /\ DOMAIN videoPanel.config = DOMAIN defaultVideoConfig
         /\ localStorage[VIDEO_STORAGE_KEY].kind \in {"absent", "garbage"}
              => videoPanel.config = defaultVideoConfig)
  /\ [](activeTab = "image" =>
         /\ loadPersistedConfigImage(localStorage) = imagePanel.config
         /\ DOMAIN imagePanel.config = DOMAIN defaultImageConfig
         /\ localStorage[IMAGE_STORAGE_KEY].kind \in {"absent", "garbage"}
              => imagePanel.config = defaultImageConfig)
  /\ [][/\ activeTab = "image" =>
             localStorage'[VIDEO_STORAGE_KEY] = localStorage[VIDEO_STORAGE_KEY]
        /\ activeTab = "video" =>
             localStorage'[IMAGE_STORAGE_KEY] = localStorage[IMAGE_STORAGE_KEY]
       ]_vars

\* C15 witness: the second Video instance has the edits made in the first
\* (a cleared max_fps, no rotation, a picked output path) and the default
\* of a field never stored.
C15_Witness ==
  /\ videoPanel.id = 2
  /\ videoPanel.config.max_fps = <<>>
  /\ videoPanel.config.rotate = -1
  /\ videoPanel.config.output_video_path = <<"a", "/", "output.mp4">>
  /\ videoPanel.config.font_size = <<12000>>

\* C16: whenever the status of the Video panel is "done" its progress is
\* 100.
C16_DoneImpliesFullProgress ==
  videoPanel.status = "done" => videoPanel.progress = 100

\* C17: in the mounted instance of either panel, status is "processing"
\* exactly when processing is true, which is exactly when a request issued
\* by that instance is outstanding; resetState and resetStatus run only
\* while processing is false and leave the outstanding requests alone.
C17_StatusMatchesProcessing ==
  /\ [](/\ videoPanel.status = "processing" <=> videoPanel.processing
        /\ videoPanel.processing
             <=> \E r \in videoReqs : r.owner = videoPanel.id
        /\ imagePanel.status = "processing" <=> imagePanel.processing
        /\ imagePanel.processing
             <=> \E r \in imageReqs : r.owner = imagePanel.id)
  /\ [][/\ resetState => ~videoPanel.processing /\ videoReqs' = videoReqs
        /\ resetStatus => ~imagePanel.processing /\ imageReqs' = imageReqs
       ]_vars

\* C17 witness: the mounted Image instance is processing its own request
\* while a request of an unmounted Video instance is still outstanding.
C17_Witness ==
  /\ imagePanel.status = "processing"
  /\ \E r \in imageReqs : r.owner = imagePanel.id
  /\ videoReqs # {}

\* C18: in either panel processError is non-null exactly when status is
\* "error"; a submit or a reset leaves processError null, and a rejected
\* request of the mounted instance leaves it non-null.
C18_ErrorMatchesStatus ==
  /\ [](/\ videoPanel.processError # <<>> <=> videoPanel.status = "error"
        /\ imagePanel.processError # <<>> <=> imagePanel.status = "error")
  /\ [][/\ processVideo \/ resetState => videoPanel'.processError = <<>>
        /\ processImage \/ resetStatus => imagePanel'.processError = <<>>
        /\ \A r \in videoReqs : \A error \in Errors :
             r.owner = videoPanel.id /\ processVideoRejected(r, error)
               => videoPanel'.processError # <<>>
        /\ \A r \in imageReqs : \A error \in Errors :
             r.owner = imagePanel.id /\ processImageRejected(r, error)
               => imagePanel'.processError # <<>>
       ]_vars

\* C18 witness: the Image panel shows the message of its rejected request.
C18_Witness ==
  /\ imagePanel.status = "error"
  /\ imagePanel.processError = <<"InvalidConfig">>

\* C19: at most one video_progress command started by the shell is
\* outstanding, and the mounted Video instance has progressWatcherRunning
\* true exactly while one is outstanding.
C19_AtMostOneWatcher ==
  /\ Cardinality(watchers) <= 1
  /\ activeTab = "video"
       => (videoPanel.progressWatcherRunning <=> watchers # {})

\* C20: every registered video-progress listener belongs to the mounted
\* Video instance: no listener of an unmounted instance stays registered.
C20_NoListenerOfUnmounted ==
  \A id \in listeners : activeTab = "video" /\ id = videoPanel.id

====
